---------------------------- MODULE Spec2Model ----------------------------
(***************************************************************************)
(* Marlin Connect 4 engine: the bitboard Position, the TranspositionTable  *)
(* and the negamax Solver.                                                 *)
(*                                                                         *)
(* A uint64_t is modelled as the set of the indices (0..63) of its 1 bits: *)
(* TLC's integers are 32 bits wide and the bitboards use bits 0..48.       *)
(* AND, OR, XOR and the shifts are the set operations; + is a ripple-carry *)
(* adder that drops the carry out of bit 63; % is Horner's rule.           *)
(***************************************************************************)
EXTENDS Integers, Sequences, FiniteSets, TLC

(***************************************************************************)
(* Bounds of the model.                                                    *)
(***************************************************************************)
\* make_move is called at most this many times after a position command
MaxSteps == 4

\* solve is called at most this many times on a cache that is not cleared
MaxSolves == 2

\* the capacities of the tables are 1 .. MaxSmallSize and the default one
MaxSmallSize == 2

\* put is called at most this many times between two resets of a table
MaxPuts == 3

\* the small keys put into a table are 0 .. MaxKey
MaxKey == 2

\* the go command is run on boards with at most this many empty cells
MaxEmpty == 7

(***************************************************************************)
(* 64-bit words.                                                           *)
(***************************************************************************)
WordBits == 64

BitAnd(a, b) == a \cap b

BitOr(a, b) == a \cup b

BitXor(a, b) == (a \ b) \cup (b \ a)

\* a >> k
Shr(a, k) == {x - k : x \in {y \in a : y >= k}}

\* a << k, bits shifted past bit 63 are lost
Shl(a, k) == {x + k : x \in {y \in a : y + k < WordBits}}

\* a + b on the bits lo .. hi-1 with the carry c into bit lo: the sum bits and
\* the carry out of bit hi-1 (the range is halved until it holds one bit)
RECURSIVE AddRange(_, _, _, _, _)
AddRange(a, b, lo, hi, c) ==
    IF c = 0 /\ \A x \in b : x < lo \/ x >= hi
    THEN [bits |-> {x \in a : x >= lo /\ x < hi}, carry |-> 0]
    ELSE IF hi = lo + 1
    THEN LET s == (IF lo \in a THEN 1 ELSE 0) + (IF lo \in b THEN 1 ELSE 0) + c
         IN  [bits |-> IF s % 2 = 1 THEN {lo} ELSE {}, carry |-> s \div 2]
    ELSE LET mid  == (lo + hi) \div 2
             low  == AddRange(a, b, lo, mid, c)
             high == AddRange(a, b, mid, hi, low.carry)
         IN  [bits |-> low.bits \cup high.bits, carry |-> high.carry]

\* a + b modulo 2^64
Add64(a, b) == AddRange(a, b, 0, WordBits, 0).bits

\* the word of a small natural number
RECURSIVE WordFrom(_, _)
WordFrom(n, i) ==
    IF n = 0 THEN {}
    ELSE (IF n % 2 = 1 THEN {i} ELSE {}) \cup WordFrom(n \div 2, i + 1)

Word(n) == WordFrom(n, 0)

Bit(a, i) == IF i \in a THEN 1 ELSE 0

\* (a >> i) % n, eight bits at a time
RECURSIVE ModFrom(_, _, _)
ModFrom(a, n, i) ==
    IF \A x \in a : x < i THEN 0
    ELSE (Bit(a, i) + 2 * Bit(a, i + 1) + 4 * Bit(a, i + 2) + 8 * Bit(a, i + 3)
          + 16 * Bit(a, i + 4) + 32 * Bit(a, i + 5) + 64 * Bit(a, i + 6)
          + 128 * Bit(a, i + 7) + 256 * ModFrom(a, n, i + 8)) % n

\* a % n for 0 < n <= 2^23
Mod64(a, n) == ModFrom(a, n, 0)

\* C++ integer division truncates toward zero
CDiv(a, b) == IF a >= 0 THEN a \div b ELSE -((-a) \div b)

(***************************************************************************)
(* Position (include/position.hpp, src/position.cpp).                      *)
(* A position is a record [mask_, position_, moves_].                      *)
(***************************************************************************)
WIDTH == 7

HEIGHT == 6

Columns == 0 .. (WIDTH - 1)

bottom_mask(col) == Shl({0}, col * (HEIGHT + 1))

column_mask(col) == Shl(0 .. (HEIGHT - 1), col * (HEIGHT + 1))

top_mask_guard(col) == Shl({0}, HEIGHT + col * (HEIGHT + 1))

top_mask(col) == Shl({0}, (HEIGHT - 1) + col * (HEIGHT + 1))

BOTTOM_MASK_zero == {}

\* the bottom cell of every column
BOTTOM_MASK == UNION {Shl({0}, s) : s \in {0, 7, 14, 21, 28, 35, 42}}

\* Position::Position()
EmptyPosition == [mask_ |-> {}, position_ |-> {}, moves_ |-> 0]

can_play_bottom(pos, col) == BitAnd(pos.mask_, bottom_mask(col)) = {}

can_play(pos, col) == BitAnd(pos.mask_, top_mask(col)) = {}

make_move_no_or(pos, col) ==
    [mask_     |-> Add64(pos.mask_, bottom_mask(col)),
     position_ |-> BitXor(pos.position_, pos.mask_),
     moves_    |-> pos.moves_ + 1]

make_move_no_flip(pos, col) ==
    [mask_     |-> BitOr(pos.mask_, Add64(pos.mask_, bottom_mask(col))),
     position_ |-> pos.position_,
     moves_    |-> pos.moves_ + 1]

make_move_no_add(pos, col) ==
    [mask_     |-> BitOr(pos.mask_, bottom_mask(col)),
     position_ |-> BitXor(pos.position_, pos.mask_),
     moves_    |-> pos.moves_ + 1]

\* position_ ^= mask_;  mask_ |= mask_ + bottom_mask(col);  moves_++
make_move(pos, col) ==
    [mask_     |-> BitOr(pos.mask_, Add64(pos.mask_, bottom_mask(col))),
     position_ |-> BitXor(pos.position_, pos.mask_),
     moves_    |-> pos.moves_ + 1]

alignment_no_vertical(pos) ==
    \/ LET m == BitAnd(pos, Shr(pos, 7)) IN BitAnd(m, Shr(m, 14)) # {}
    \/ LET m == BitAnd(pos, Shr(pos, 8)) IN BitAnd(m, Shr(m, 16)) # {}
    \/ LET m == BitAnd(pos, Shr(pos, 6)) IN BitAnd(m, Shr(m, 12)) # {}

\* the shift-and-AND test along the four directions
alignment(pos) ==
    \/ LET m == BitAnd(pos, Shr(pos, 7)) IN BitAnd(m, Shr(m, 14)) # {}
    \/ LET m == BitAnd(pos, Shr(pos, 1)) IN BitAnd(m, Shr(m, 2)) # {}
    \/ LET m == BitAnd(pos, Shr(pos, 8)) IN BitAnd(m, Shr(m, 16)) # {}
    \/ LET m == BitAnd(pos, Shr(pos, 6)) IN BitAnd(m, Shr(m, 12)) # {}

is_winning_move(pos, col) ==
    LET new_piece    == BitAnd(Add64(pos.mask_, bottom_mask(col)), column_mask(col))
        new_position == BitOr(pos.position_, new_piece)
    IN  alignment(new_position)

\* Position::key(): position_ + mask_ + BOTTOM_MASK
key(pos) == Add64(Add64(pos.position_, pos.mask_), BOTTOM_MASK)

(***************************************************************************)
(* The command loop's move strings (src/main.cpp).  A string is a sequence *)
(* of character codes.                                                     *)
(***************************************************************************)
\* the code of the character '0'
Char0 == 48

\* the string of a sequence of digits ('0' + d each)
Str(digits) == [i \in DOMAIN digits |-> Char0 + digits[i]]

\* parse_moves from the i-th character on, count moves applied so far:
\* the position it leaves and the value it returns
RECURSIVE parse_from(_, _, _, _)
parse_from(p, moves, i, count) ==
    IF i > Len(moves) THEN [pos |-> p, result |-> count]
    ELSE LET c == moves[i] IN
         IF c < Char0 + 1 \/ c > Char0 + 7 THEN [pos |-> p, result |-> -1]
         ELSE LET col == c - (Char0 + 1) IN
              IF ~can_play(p, col) THEN [pos |-> p, result |-> -1]
              ELSE parse_from(make_move(p, col), moves, i + 1, count + 1)

parse_moves(p, moves) == parse_from(p, moves, 1, 0)

handle_position_rollback(args) ==
    IF args # <<>>
    THEN LET r == parse_moves(EmptyPosition, args)
         IN  IF r.result < 0 THEN [pos |-> EmptyPosition, result |-> -1] ELSE r
    ELSE [pos |-> EmptyPosition, result |-> 0]

\* handle_position: pos = Position(), then parse_moves unless args is empty
handle_position(args) ==
    IF args # <<>> THEN parse_moves(EmptyPosition, args)
    ELSE [pos |-> EmptyPosition, result |-> 0]

(***************************************************************************)
(* TranspositionTable (include/transposition.hpp, src/transposition.cpp).  *)
(* A table is a record [size_, table_]; table_ maps the indices that were  *)
(* written to their Entry, every other index holds the default Entry.      *)
(***************************************************************************)
DefaultSize == 8388608

NoEntries == [i \in {} |-> 0]

DefaultEntry == [key |-> {}, value |-> 0]

\* TranspositionTable::TranspositionTable(size)
TranspositionTable(size) == [size_ |-> size, table_ |-> NoEntries]

index(tt, k) == Mod64(k, tt.size_)

EntryAt(tt, idx) == IF idx \in DOMAIN tt.table_ THEN tt.table_[idx] ELSE DefaultEntry

put_if_free(tt, k, value) ==
    IF EntryAt(tt, index(tt, k)).value # 0 THEN tt
    ELSE [tt EXCEPT !.table_ = (index(tt, k) :> [key |-> k, value |-> value]) @@ @]

put_value_only(tt, k, value) ==
    [tt EXCEPT !.table_ =
        (index(tt, k) :> [key |-> EntryAt(tt, index(tt, k)).key, value |-> value]) @@ @]

\* table_[idx].key = key;  table_[idx].value = value
put(tt, k, value) ==
    [tt EXCEPT !.table_ = (index(tt, k) :> [key |-> k, value |-> value]) @@ @]

get_unchecked(tt, k) == EntryAt(tt, index(tt, k)).value

get(tt, k) ==
    LET e == EntryAt(tt, index(tt, k))
    IN  IF e.key = k THEN e.value ELSE 0

reset_keys_only(tt) ==
    [tt EXCEPT !.table_ =
        [idx \in DOMAIN @ |-> [key |-> DefaultEntry.key, value |-> @[idx].value]]]

reset_none(tt) == tt

\* every entry is set to key 0, value 0
reset(tt) == [tt EXCEPT !.table_ = NoEntries]

\* static_cast<int8_t>(x)
Int8(x) == ((x + 128) % 256) - 128

(***************************************************************************)
(* Solver (include/solver.hpp, src/solver.cpp).  negamax reads and writes  *)
(* the solver's table and counter: it takes them as tt and n and returns   *)
(* [score, tt, nodes].                                                     *)
(***************************************************************************)
COLUMN_ORDER == <<3, 2, 4, 1, 5, 0, 6>>

reset_node_count_keep(n) == n

reset_node_count(n) == 0

max_possible_low(p) == CDiv(WIDTH * HEIGHT - 2 - p.moves_, 2)

\* int max_possible = (WIDTH * HEIGHT - 1 - pos.nb_moves()) / 2
max_possible(p) == CDiv(WIDTH * HEIGHT - 1 - p.moves_, 2)

RECURSIVE negamax(_, _, _, _, _)
RECURSIVE move_loop(_, _, _, _, _, _, _)

\* the move loop of negamax from the i-th column of COLUMN_ORDER on, and the
\* store that follows it
move_loop(p, k, i, alpha, beta, tt, n) ==
    IF i > WIDTH
    THEN [score |-> alpha,
          tt    |-> put(tt, k, Int8(alpha - CDiv(WIDTH * HEIGHT, 2) + 1)),
          nodes |-> n]
    ELSE LET col == COLUMN_ORDER[i] IN
         IF ~can_play(p, col) THEN move_loop(p, k, i + 1, alpha, beta, tt, n)
         ELSE LET r     == negamax(make_move(p, col), -beta, -alpha, tt, n)
                  score == -r.score
              IN  IF score >= beta
                  THEN [score |-> score, tt |-> r.tt, nodes |-> r.nodes]
                  ELSE move_loop(p, k, i + 1,
                                 IF score > alpha THEN score ELSE alpha,
                                 beta, r.tt, r.nodes)

negamax(p, alpha, beta, tt, n) ==
    IF \E i \in 1 .. WIDTH :
          can_play(p, COLUMN_ORDER[i]) /\ is_winning_move(p, COLUMN_ORDER[i])
    THEN [score |-> CDiv(WIDTH * HEIGHT + 1 - p.moves_, 2), tt |-> tt, nodes |-> n + 1]
    ELSE IF p.moves_ >= WIDTH * HEIGHT - 1
    THEN [score |-> 0, tt |-> tt, nodes |-> n + 1]
    ELSE LET k              == key(p)
             cached_value   == get(tt, k)
             max_from_cache == cached_value + CDiv(WIDTH * HEIGHT, 2) - 1
             tighten1       == cached_value # 0 /\ beta > max_from_cache
             beta1          == IF tighten1 THEN max_from_cache ELSE beta
         IN  IF tighten1 /\ alpha >= beta1
             THEN [score |-> beta1, tt |-> tt, nodes |-> n + 1]
             ELSE LET tighten2 == beta1 > max_possible(p)
                      beta2    == IF tighten2 THEN max_possible(p) ELSE beta1
                  IN  IF tighten2 /\ alpha >= beta2
                      THEN [score |-> beta2, tt |-> tt, nodes |-> n + 1]
                      ELSE move_loop(p, k, 1, alpha, beta2, tt, n + 1)

\* Solver::solve on a solver whose table is tt and whose counter is n:
\* reset_node_count, then negamax on the full window
solve(p, tt, n) ==
    negamax(p, CDiv(-(WIDTH * HEIGHT), 2), CDiv(WIDTH * HEIGHT + 1, 2), tt,
            reset_node_count(n))

(***************************************************************************)
(* State.                                                                  *)
(***************************************************************************)
VARIABLES
    mask_,        \* Position::mask_ of the board
    position_,    \* Position::position_ of the board
    moves_,       \* Position::moves_ of the board
    parsed,       \* <<r>>: the last position command's parse_moves returned r
    steps,        \* the number of make_move calls since the last position command
    grid,         \* the board as a 2D array would hold it: grid[c] is the
                  \* sequence of the players (0 moves first, 1 second) whose
                  \* stones lie in column c, bottom first
    tt_,          \* the table: Solver::tt_, or a table used on its own
    node_count_,  \* Solver::node_count_
    score,        \* <<s>>: the solver's last solve returned s
    solves,       \* the number of solve calls since the table was last clean
    clean,        \* no solve ran since the solver was built or its table reset
    fromClean,    \* the last solve started with clean true
    first,        \* <<[score, nodes]>>: what the first solve from a clean table
                  \* gave for the board, on this solver
    repeated,     \* the last solve started with clean true and was not the
                  \* first such solve of the board on this solver
    log,          \* the <<key, value>> of the put calls made on the table by
                  \* its user since its construction or last reset
    got,          \* <<k, v>>: the last get call, get(k), returned v
    expect,       \* <<[minimax, atDefault]>> if the last solve started with
                  \* clean true: the reference score of its board, and what
                  \* solve gives for it on a new solver of the default capacity
    frames,       \* the call stack of negamax while a solve runs step by step,
                  \* the innermost call last: its pos, alpha, beta, its loop
                  \* index i, its key and the place pc it has reached
    ret,          \* <<v>>: the negamax call that ended last returned v and its
                  \* caller has not taken the value yet
    calls,        \* the number of calls of negamax made since the running (or
                  \* the last) solve began
    truth,        \* the reference score of every position the solver has put
                  \* into its table since the table was last clean, by key
    cleared,      \* the keys of the put calls that the last reset wiped, until
                  \* the next put
    given,        \* the argument string of the last position command
    go,           \* <<>> while no go command runs, else <<[pc, col, best_col,
                  \* best_score]>>: the place handle_go has reached, its loop
                  \* variable and its best move so far
    bestmove,     \* <<>>, or <<r>> when the last go command printed r
    op            \* the operation that ran last

board == <<mask_, position_, moves_, parsed, steps, grid, given>>

solver == <<tt_, node_count_, score, solves, clean, fromClean, first, repeated>>

search == <<frames, ret, calls, truth>>

vars == <<mask_, position_, moves_, parsed, steps, grid, tt_, node_count_, score,
          solves, clean, fromClean, first, repeated, log, got, expect, frames,
          ret, calls, truth, cleared,
          given, go, bestmove, op>>

pos == [mask_ |-> mask_, position_ |-> position_, moves_ |-> moves_]

(***************************************************************************)
(* The reference board.                                                    *)
(***************************************************************************)
EmptyGrid == [c \in Columns |-> <<>>]

GridCount(g) ==
    Len(g[0]) + Len(g[1]) + Len(g[2]) + Len(g[3]) + Len(g[4]) + Len(g[5]) + Len(g[6])

\* the player who moves next
GridMover(g) == GridCount(g) % 2

GridDrop(g, c) == [g EXCEPT ![c] = Append(@, GridMover(g))]

\* the stones of the string's moves that come before its first character
\* outside '1'..'7' and its first move into a column that holds 6 stones
RECURSIVE GridReplay(_, _, _)
GridReplay(g, moves, i) ==
    IF i > Len(moves) THEN g
    ELSE LET c == moves[i] - (Char0 + 1) IN
         IF c \notin Columns THEN g
         ELSE IF Len(g[c]) >= HEIGHT THEN g
         ELSE GridReplay(GridDrop(g, c), moves, i + 1)

\* the bit indices of the cells of player pl
GridStones(g, pl) ==
    {c * (HEIGHT + 1) + (r - 1) : c \in Columns, r \in 1 .. HEIGHT} \cap
    UNION {{c * (HEIGHT + 1) + (r - 1) : r \in {q \in DOMAIN g[c] : g[c][q] = pl}} :
           c \in Columns}

\* the lines of four cells <<column, row>> of the 7x6 grid
Lines ==
    {{<<c + k * d[1], r + k * d[2]>> : k \in 0 .. 3} :
        c \in Columns, r \in 0 .. (HEIGHT - 1),
        d \in {<<1, 0>>, <<0, 1>>, <<1, 1>>, <<1, -1>>}}

GridOwns(g, pl, cell) ==
    /\ cell[1] \in Columns
    /\ cell[2] >= 0
    /\ cell[2] < Len(g[cell[1]])
    /\ g[cell[1]][cell[2] + 1] = pl

\* player pl has four stones in a line
GridFour(g, pl) == \E line \in Lines : \A cell \in line : GridOwns(g, pl, cell)

(***************************************************************************)
(* The reference score.                                                    *)
(***************************************************************************)
\* the full-width negamax without window, bounds or table: a winning drop
\* scores (WIDTH*HEIGHT + 1 - moves) / 2, a full board 0, any other position
\* the best of the negated scores of its children
RECURSIVE Minimax(_)
Minimax(p) ==
    IF \E col \in Columns : can_play(p, col) /\ is_winning_move(p, col)
    THEN CDiv(WIDTH * HEIGHT + 1 - p.moves_, 2)
    ELSE IF \A col \in Columns : ~can_play(p, col)
    THEN 0
    ELSE LET scores == {-Minimax(make_move(p, col)) :
                           col \in {c \in Columns : can_play(p, c)}}
         IN  CHOOSE m \in scores : \A x \in scores : x <= m

(***************************************************************************)
(* The move strings of the position commands.                              *)
(***************************************************************************)
MoveStrings ==
    {Str(d) : d \in
        {<<>>,
         <<1, 2, 1, 2, 1, 2>>,
         <<1, 1, 2, 2, 3, 3>>,
         <<1, 1, 1, 1, 1, 1>>,
         <<7, 4, 6, 5, 6, 5, 7, 6, 7>>,
         <<4, 4, 5, 4, 3, 5, 3, 6, 3>>,
         <<1, 2, 0, 3>>,
         <<3, 8>>,
         <<5, 5, 5, 5, 5, 5, 5, 1>>,
         <<1, 4, 6, 3, 5, 6, 7, 6, 3, 3, 1, 4, 5, 7, 6, 4, 3, 6, 2, 6, 4, 3, 5,
           5, 3, 2, 7, 7, 1, 5, 4, 2, 2, 1>>,
         <<4, 5, 6, 6, 2, 6, 7, 7, 2, 1, 5, 7, 3, 1, 4, 4, 5, 6, 5, 3, 7, 7, 2,
           1, 7, 3, 1, 1, 1, 5, 3, 5, 6, 2, 2, 2, 3, 4>>}}

\* legal games without four in a line that leave 7 or 6 cells empty (the
\* mover loses, draws, wins), one whose mover wins at once, and a full board
EndgameStrings ==
    {Str(d) : d \in
        {<<4, 3, 1, 4, 3, 3, 6, 4, 2, 6, 7, 5, 2, 4, 6, 5, 6, 3, 1, 6, 6, 3, 3,
           2, 7, 7, 5, 5, 2, 5, 2, 2, 1, 5, 4, 1>>,
         <<1, 5, 3, 7, 6, 3, 5, 4, 4, 3, 4, 5, 1, 1, 1, 3, 4, 5, 6, 4, 4, 5, 6,
           2, 1, 6, 2, 6, 2, 6, 2, 7, 3, 3, 5, 2>>,
         <<1, 6, 3, 1, 4, 6, 3, 1, 3, 5, 5, 5, 5, 7, 6, 1, 7, 6, 5, 6, 1, 1, 6,
           2, 7, 5, 2, 3, 3, 2, 2, 7, 2, 2, 7>>,
         <<1, 1, 6, 2, 6, 4, 7, 1, 6, 7, 1, 1, 1, 5, 4, 6, 3, 5, 7, 2, 2, 4, 7,
           2, 4, 2, 4, 7, 2, 6, 3, 6, 7, 5, 5, 5>>,
         <<2, 3, 4, 7, 2, 6, 1, 5, 7, 2, 2, 4, 2, 4, 2, 4, 4, 1, 3, 3, 7, 6, 3,
           4, 7, 5, 6, 6, 3, 3, 5, 7, 1, 5, 6, 5, 5>>,
         <<2, 3, 4, 7, 2, 6, 1, 5, 7, 2, 2, 4, 2, 4, 2, 4, 4, 1, 3, 3, 7, 6, 3,
           4, 7, 5, 6, 6, 3, 3, 5, 7, 1, 5, 6, 5, 5, 1, 7, 1, 6, 1>>}}

\* an endgame whose search stores a bound above the score of a position
BoundStrings ==
    {Str(<<5, 6, 6, 4, 1, 7, 7, 7, 2, 7, 3, 3, 7, 2, 5, 6, 5, 4, 6, 6, 1, 2, 4,
           1, 6, 7, 3, 4, 3, 5, 5, 3, 1, 1, 3, 1, 4>>)}

\* an endgame followed by a move into its full first column and one more move
FullColumnStrings ==
    {Str(<<1, 1, 6, 2, 6, 4, 7, 1, 6, 7, 1, 1, 1, 5, 4, 6, 3, 5, 7, 2, 2, 4, 7,
           2, 4, 2, 4, 7, 2, 6, 3, 6, 7, 5, 5, 5, 1, 3>>)}

\* what the position command does with each of the strings
PositionCommand ==
    [args \in MoveStrings \cup EndgameStrings \cup BoundStrings \cup FullColumnStrings |->
        [r |-> handle_position(args), g |-> GridReplay(EmptyGrid, args, 1)]]

\* the boards the solver is run on
EndgameBoards ==
    {PositionCommand[args].r.pos : args \in EndgameStrings \cup BoundStrings}

\* the capacities of the solver's table
SolverSizes == (1 .. MaxSmallSize) \cup {DefaultSize}

\* the keys and the values put into a table used on its own
Keys == {Word(n) : n \in 0 .. MaxKey} \cup {key(EmptyPosition)}

Values == {-20, 7}

(***************************************************************************)
(* The operations.                                                         *)
(***************************************************************************)
\* a solver (Solver solver;) whose table has the given capacity, built while
\* no solve runs
NewSolver(size) ==
    /\ frames = <<>>
    /\ ret = <<>>
    /\ go = <<>>
    /\ tt_' = TranspositionTable(size)
    /\ node_count_' = 0
    /\ score' = <<>>
    /\ solves' = 0
    /\ clean' = TRUE
    /\ fromClean' = FALSE
    /\ first' = <<>>
    /\ repeated' = FALSE
    /\ expect' = <<>>
    /\ truth' = <<>>
    /\ op' = "Solver"
    /\ UNCHANGED <<board, log, got, frames, ret, calls, cleared, go, bestmove>>

\* the position command: handle_position(pos, args).  It starts from
\* pos = Position() whatever the board was
HandlePosition(args) ==
    /\ frames = <<>>
    /\ ret = <<>>
    /\ go = <<>>
    /\ LET r == PositionCommand[args].r
       IN  /\ mask_' = r.pos.mask_
           /\ position_' = r.pos.position_
           /\ moves_' = r.pos.moves_
           /\ parsed' = IF args # <<>> THEN <<r.result>> ELSE <<>>
    /\ steps' = 0
    /\ grid' = PositionCommand[args].g
    /\ first' = <<>>
    /\ repeated' = FALSE
    /\ op' = "handle_position"
    /\ given' = args
    /\ UNCHANGED <<tt_, node_count_, score, solves, clean, fromClean, log, got,
                   expect, search, cleared, go, bestmove>>

\* pos.make_move(col) after pos.can_play(col) returned true
MakeMove(col) ==
    /\ steps < MaxSteps
    /\ can_play(pos, col)
    /\ LET next == make_move(pos, col)
       IN  /\ mask_' = next.mask_
           /\ position_' = next.position_
           /\ moves_' = next.moves_
    /\ steps' = steps + 1
    /\ grid' = GridDrop(grid, col)
    /\ op' = "make_move"
    /\ UNCHANGED <<parsed, solver, log, got, expect, search, cleared, given, go, bestmove>>

\* solver.solve(pos) on one of the endgame boards
Solve ==
    /\ solves < MaxSolves
    /\ pos \in EndgameBoards
    /\ LET r == solve(pos, tt_, node_count_)
       IN  /\ tt_' = r.tt
           /\ node_count_' = r.nodes
           /\ score' = <<r.score>>
           /\ first' = IF clean /\ first = <<>>
                       THEN <<[score |-> r.score, nodes |-> r.nodes]>>
                       ELSE first
    /\ solves' = solves + 1
    /\ clean' = FALSE
    /\ fromClean' = clean
    /\ repeated' = (clean /\ first # <<>>)
    /\ expect' = IF clean
                 THEN LET d == solve(pos, TranspositionTable(DefaultSize), 0)
                      IN  <<[minimax   |-> Minimax(pos),
                             atDefault |-> [score |-> d.score, nodes |-> d.nodes]]>>
                 ELSE <<>>
    /\ op' = "solve"
    /\ UNCHANGED <<board, log, got, search, cleared, go, bestmove>>

\* reset() on the table, while no solve runs
Reset ==
    /\ frames = <<>>
    /\ ret = <<>>
    /\ go = <<>>
    /\ tt_' = reset(tt_)
    /\ solves' = 0
    /\ clean' = TRUE
    /\ log' = <<>>
    /\ got' = <<>>
    /\ truth' = <<>>
    /\ cleared' = {log[n][1] : n \in DOMAIN log}
    /\ op' = "reset"
    /\ UNCHANGED <<board, node_count_, score, fromClean, first, repeated, expect,
                   frames, ret, calls, go, bestmove>>

\* solver.reset_node_count() called on its own, while no solve runs
ResetNodeCount ==
    /\ frames = <<>>
    /\ ret = <<>>
    /\ go = <<>>
    /\ node_count_' = reset_node_count(node_count_)
    /\ op' = "reset_node_count"
    /\ UNCHANGED <<board, tt_, score, solves, clean, fromClean, first, repeated,
                   log, got, expect, search, cleared, go, bestmove>>

\* put(k, value) on the table
Put(k, value) ==
    /\ Len(log) < MaxPuts
    /\ tt_' = put(tt_, k, value)
    /\ log' = Append(log, <<k, value>>)
    /\ got' = <<>>
    /\ cleared' = {}
    /\ op' = "put"
    /\ UNCHANGED <<board, node_count_, score, solves, clean, fromClean, first,
                   repeated, expect, search, go, bestmove>>

\* get(k) on the table
Get(k) ==
    /\ got' = <<k, get(tt_, k)>>
    /\ op' = "get"
    /\ UNCHANGED <<board, solver, log, expect, search, cleared, go, bestmove>>

(***************************************************************************)
(* The solve, one step of negamax at a time (src/solver.cpp).  Every call  *)
(* of negamax has a frame on the stack frames; a frame's pc is "enter"     *)
(* (line 38), "lookup" (line 63), "tighten" (line 81), "loop" (line 90) or *)
(* "wait" (line 100, the call of a child has not returned).                *)
(***************************************************************************)
\* the frame of the call negamax(p, alpha, beta) before its first statement
Frame(p, alpha, beta) ==
    [p |-> p, alpha |-> alpha, beta |-> beta, pc |-> "enter", i |-> 0, k |-> {}]

\* the frame of the innermost call, and the frames of its callers
Top == frames[Len(frames)]

Callers == SubSeq(frames, 1, Len(frames) - 1)

\* the innermost call is running and stands at pc
At(pc) == frames # <<>> /\ ret = <<>> /\ Top.pc = pc

immediate_win_first(p) ==
    can_play(p, COLUMN_ORDER[1]) /\ is_winning_move(p, COLUMN_ORDER[1])

\* the loop of lines 43-49 finds a column to return from
immediate_win(p) ==
    \E i \in 1 .. WIDTH :
        can_play(p, COLUMN_ORDER[i]) /\ is_winning_move(p, COLUMN_ORDER[i])

win_score_no_round(p) == CDiv(WIDTH * HEIGHT - p.moves_, 2)

\* (WIDTH * HEIGHT + 1 - pos.nb_moves()) / 2
win_score(p) == CDiv(WIDTH * HEIGHT + 1 - p.moves_, 2)

draw_check_late(p) == p.moves_ > WIDTH * HEIGHT

\* pos.nb_moves() >= WIDTH * HEIGHT - 1
draw_check(p) == p.moves_ >= WIDTH * HEIGHT - 1

\* cached_value + WIDTH * HEIGHT / 2 - 1
max_from_cache(cached_value) == cached_value + CDiv(WIDTH * HEIGHT, 2) - 1

stored_value_no_offset(alpha) == Int8(alpha)

\* alpha - WIDTH * HEIGHT / 2 + 1, as put receives it
stored_value(alpha) == Int8(alpha - CDiv(WIDTH * HEIGHT, 2) + 1)

\* what no step of the search changes
kept == <<board, score, solves, first, repeated, log, expect, cleared, go, bestmove>>

\* solver.solve(pos) on one of the endgame boards, up to its call of negamax
SolveBegin ==
    /\ frames = <<>>
    /\ ret = <<>>
    /\ go = <<>>
    /\ solves < MaxSolves
    /\ pos \in EndgameBoards
    /\ node_count_' = reset_node_count(node_count_)
    /\ frames' = <<Frame(pos, CDiv(-(WIDTH * HEIGHT), 2), CDiv(WIDTH * HEIGHT + 1, 2))>>
    /\ calls' = 1
    /\ solves' = solves + 1
    /\ clean' = FALSE
    /\ fromClean' = clean
    /\ op' = "solve_begin"
    /\ UNCHANGED <<board, tt_, score, first, repeated, log, got, expect, ret, truth,
                   cleared, go, bestmove>>

\* lines 38-49: node_count_++, and a winning drop is found
EnterWin ==
    /\ At("enter")
    /\ immediate_win(Top.p)
    /\ node_count_' = node_count_ + 1
    /\ frames' = Callers
    /\ ret' = <<win_score(Top.p)>>
    /\ op' = "win"
    /\ UNCHANGED <<kept, clean, fromClean, tt_, got, calls, truth>>

EnterDraw_store ==
    /\ At("enter")
    /\ ~immediate_win(Top.p)
    /\ draw_check(Top.p)
    /\ node_count_' = node_count_ + 1
    /\ tt_' = put(tt_, key(Top.p), stored_value(0))
    /\ frames' = Callers
    /\ ret' = <<0>>
    /\ op' = "draw"
    /\ UNCHANGED <<kept, clean, fromClean, got, calls, truth>>

\* lines 38-56: node_count_++, no winning drop, the draw check returns 0
EnterDraw ==
    /\ At("enter")
    /\ ~immediate_win(Top.p)
    /\ draw_check(Top.p)
    /\ node_count_' = node_count_ + 1
    /\ frames' = Callers
    /\ ret' = <<0>>
    /\ op' = "draw"
    /\ UNCHANGED <<kept, clean, fromClean, tt_, got, calls, truth>>

\* lines 38-56: node_count_++, and neither base case returns
Enter ==
    /\ At("enter")
    /\ ~immediate_win(Top.p)
    /\ ~draw_check(Top.p)
    /\ node_count_' = node_count_ + 1
    /\ frames' = [frames EXCEPT ![Len(frames)].pc = "lookup"]
    /\ op' = "negamax"
    /\ UNCHANGED <<kept, clean, fromClean, tt_, got, ret, calls, truth>>

\* lines 63-72: the cached bound lowers beta to alpha or below, return beta
LookupPrune ==
    /\ At("lookup")
    /\ LET k            == key(Top.p)
           cached_value == get(tt_, k)
       IN  /\ cached_value # 0
           /\ Top.beta > max_from_cache(cached_value)
           /\ Top.alpha >= max_from_cache(cached_value)
           /\ got' = <<k, cached_value>>
           /\ ret' = <<max_from_cache(cached_value)>>
    /\ frames' = Callers
    /\ op' = "cached"
    /\ UNCHANGED <<kept, clean, fromClean, tt_, node_count_, calls, truth>>

\* lines 63-74: the key, the lookup, beta lowered to the cached bound
Lookup ==
    /\ At("lookup")
    /\ LET k            == key(Top.p)
           cached_value == get(tt_, k)
           lower        == cached_value # 0 /\ Top.beta > max_from_cache(cached_value)
       IN  /\ ~(lower /\ Top.alpha >= max_from_cache(cached_value))
           /\ got' = <<k, cached_value>>
           /\ frames' = [frames EXCEPT
                            ![Len(frames)].k = k,
                            ![Len(frames)].beta =
                                IF lower THEN max_from_cache(cached_value) ELSE @,
                            ![Len(frames)].pc = "tighten"]
    /\ op' = "lookup"
    /\ UNCHANGED <<kept, clean, fromClean, tt_, node_count_, ret, calls, truth>>

\* lines 81-84: max_possible lowers beta to alpha or below, return beta
TightenPrune ==
    /\ At("tighten")
    /\ Top.beta > max_possible(Top.p)
    /\ Top.alpha >= max_possible(Top.p)
    /\ frames' = Callers
    /\ ret' = <<max_possible(Top.p)>>
    /\ op' = "tight"
    /\ UNCHANGED <<kept, clean, fromClean, tt_, node_count_, got, calls, truth>>

Tighten_no_return ==
    /\ At("tighten")
    /\ frames' = [frames EXCEPT
                     ![Len(frames)].beta =
                         IF @ > max_possible(Top.p) THEN max_possible(Top.p) ELSE @,
                     ![Len(frames)].i = 0,
                     ![Len(frames)].pc = "loop"]
    /\ op' = "tighten"
    /\ UNCHANGED <<kept, clean, fromClean, tt_, node_count_, got, ret, calls, truth>>

\* lines 81-90: beta lowered to max_possible, the move loop starts
Tighten ==
    /\ At("tighten")
    /\ ~(Top.beta > max_possible(Top.p) /\ Top.alpha >= max_possible(Top.p))
    /\ frames' = [frames EXCEPT
                     ![Len(frames)].beta =
                         IF @ > max_possible(Top.p) THEN max_possible(Top.p) ELSE @,
                     ![Len(frames)].i = 0,
                     ![Len(frames)].pc = "loop"]
    /\ op' = "tighten"
    /\ UNCHANGED <<kept, clean, fromClean, tt_, node_count_, got, ret, calls, truth>>

\* lines 90-93: the column COLUMN_ORDER[i] is full, i++
Skip ==
    /\ At("loop")
    /\ Top.i < WIDTH
    /\ ~can_play(Top.p, COLUMN_ORDER[Top.i + 1])
    /\ frames' = [frames EXCEPT ![Len(frames)].i = @ + 1]
    /\ op' = "skip"
    /\ UNCHANGED <<kept, clean, fromClean, tt_, node_count_, got, ret, calls, truth>>

Call_alias ==
    /\ At("loop")
    /\ Top.i < WIDTH
    /\ can_play(Top.p, COLUMN_ORDER[Top.i + 1])
    /\ frames' = Append([frames EXCEPT ![Len(frames)].pc = "wait",
                                       ![Len(frames)].p =
                                           make_move(Top.p, COLUMN_ORDER[Top.i + 1])],
                        Frame(make_move(Top.p, COLUMN_ORDER[Top.i + 1]),
                              -Top.beta, -Top.alpha))
    /\ calls' = calls + 1
    /\ op' = "call"
    /\ UNCHANGED <<kept, clean, fromClean, tt_, node_count_, got, ret, truth>>

\* lines 90-100: next = pos, next.make_move(col), negamax(next, -beta, -alpha)
Call ==
    /\ At("loop")
    /\ Top.i < WIDTH
    /\ can_play(Top.p, COLUMN_ORDER[Top.i + 1])
    /\ frames' = Append([frames EXCEPT ![Len(frames)].pc = "wait"],
                        Frame(make_move(Top.p, COLUMN_ORDER[Top.i + 1]),
                              -Top.beta, -Top.alpha))
    /\ calls' = calls + 1
    /\ op' = "call"
    /\ UNCHANGED <<kept, clean, fromClean, tt_, node_count_, got, ret, truth>>

Cutoff_store ==
    /\ frames # <<>>
    /\ ret # <<>>
    /\ Top.pc = "wait"
    /\ -ret[1] >= Top.beta
    /\ tt_' = put(tt_, Top.k, stored_value(-ret[1]))
    /\ truth' = (Top.k :> Minimax(Top.p)) @@ truth
    /\ frames' = Callers
    /\ ret' = <<-ret[1]>>
    /\ op' = "cutoff"
    /\ UNCHANGED <<kept, clean, fromClean, node_count_, got, calls>>

\* lines 100-106: the child returned, score >= beta, return score
Cutoff ==
    /\ frames # <<>>
    /\ ret # <<>>
    /\ Top.pc = "wait"
    /\ -ret[1] >= Top.beta
    /\ frames' = Callers
    /\ ret' = <<-ret[1]>>
    /\ op' = "cutoff"
    /\ UNCHANGED <<kept, clean, fromClean, tt_, node_count_, got, calls, truth>>

Resume_stay ==
    /\ frames # <<>>
    /\ ret # <<>>
    /\ Top.pc = "wait"
    /\ -ret[1] < Top.beta
    /\ frames' = [frames EXCEPT
                     ![Len(frames)].alpha = IF -ret[1] > @ THEN -ret[1] ELSE @,
                     ![Len(frames)].pc = "loop"]
    /\ ret' = <<>>
    /\ op' = "resume"
    /\ UNCHANGED <<kept, clean, fromClean, tt_, node_count_, got, calls, truth>>

\* lines 100-114: the child returned, score < beta, alpha raised, i++
Resume ==
    /\ frames # <<>>
    /\ ret # <<>>
    /\ Top.pc = "wait"
    /\ -ret[1] < Top.beta
    /\ frames' = [frames EXCEPT
                     ![Len(frames)].alpha = IF -ret[1] > @ THEN -ret[1] ELSE @,
                     ![Len(frames)].i = @ + 1,
                     ![Len(frames)].pc = "loop"]
    /\ ret' = <<>>
    /\ op' = "resume"
    /\ UNCHANGED <<kept, clean, fromClean, tt_, node_count_, got, calls, truth>>

Store_low ==
    /\ At("loop")
    /\ Top.i = WIDTH
    /\ tt_' = put(tt_, Top.k, stored_value(Top.alpha - 1))
    /\ truth' = (Top.k :> Minimax(Top.p)) @@ truth
    /\ frames' = Callers
    /\ ret' = <<Top.alpha>>
    /\ op' = "store"
    /\ UNCHANGED <<kept, clean, fromClean, node_count_, got, calls>>

\* lines 121-123: the loop is over, tt_.put(key, alpha - 21 + 1), return alpha
Store ==
    /\ At("loop")
    /\ Top.i = WIDTH
    /\ tt_' = put(tt_, Top.k, stored_value(Top.alpha))
    /\ truth' = (Top.k :> Minimax(Top.p)) @@ truth
    /\ frames' = Callers
    /\ ret' = <<Top.alpha>>
    /\ op' = "store"
    /\ UNCHANGED <<kept, clean, fromClean, node_count_, got, calls>>

\* line 26: solve returns what its call of negamax returned
SolveReturn ==
    /\ frames = <<>>
    /\ ret # <<>>
    /\ go = <<>>
    /\ score' = ret
    /\ ret' = <<>>
    /\ op' = "solve"
    /\ UNCHANGED <<board, tt_, node_count_, solves, clean, fromClean, first,
                   repeated, log, got, expect, frames, calls, truth, cleared, go, bestmove>>

(***************************************************************************)
(* The go command, handle_go (src/main.cpp), one step at a time.  Its       *)
(* solver is the local 'Solver solver;': tt_ and node_count_ are that       *)
(* solver's while the command runs.  go[1].pc is "loop" (line 113) or       *)
(* "wait" (line 120, solver.solve(next) has not returned).                  *)
(***************************************************************************)
\* no command and no solve runs
Idle == frames = <<>> /\ ret = <<>> /\ go = <<>>

\* lines 93-98: the first column of 0 .. 6 that wins at once
GoWin ==
    /\ Idle
    /\ WIDTH * HEIGHT - moves_ <= MaxEmpty
    /\ \E col \in Columns :
          /\ can_play(pos, col) /\ is_winning_move(pos, col)
          /\ \A c \in 0 .. (col - 1) : ~(can_play(pos, c) /\ is_winning_move(pos, c))
          /\ bestmove' = <<[col |-> col + 1, result |-> "WIN (immediate)"]>>
    /\ op' = "go_win"
    /\ UNCHANGED <<board, solver, log, got, expect, search, cleared, go>>

\* lines 100-104: no column wins at once and the board is full
GoDraw ==
    /\ Idle
    /\ WIDTH * HEIGHT - moves_ <= MaxEmpty
    /\ \A col \in Columns : ~(can_play(pos, col) /\ is_winning_move(pos, col))
    /\ moves_ = WIDTH * HEIGHT
    /\ bestmove' = <<[result |-> "Game is a draw"]>>
    /\ op' = "go_draw"
    /\ UNCHANGED <<board, solver, log, got, expect, search, cleared, go>>

\* lines 107-109: Solver solver;  best_col = -1;  best_score = -1000
GoBegin ==
    /\ Idle
    /\ WIDTH * HEIGHT - moves_ <= MaxEmpty
    /\ \A col \in Columns : ~(can_play(pos, col) /\ is_winning_move(pos, col))
    /\ moves_ # WIDTH * HEIGHT
    /\ tt_' = TranspositionTable(DefaultSize)
    /\ node_count_' = 0
    /\ score' = <<>>
    /\ solves' = 0
    /\ clean' = TRUE
    /\ fromClean' = FALSE
    /\ first' = <<>>
    /\ repeated' = FALSE
    /\ expect' = <<>>
    /\ truth' = <<>>
    /\ go' = <<[pc |-> "loop", col |-> 0, best_col |-> -1, best_score |-> -1000]>>
    /\ op' = "go_begin"
    /\ UNCHANGED <<board, log, got, frames, ret, calls, cleared, bestmove>>

\* lines 113-114: pos.can_play(col) is false, col++
GoSkip ==
    /\ go # <<>>
    /\ go[1].pc = "loop"
    /\ go[1].col < WIDTH
    /\ ~can_play(pos, go[1].col)
    /\ go' = <<[go[1] EXCEPT !.col = @ + 1]>>
    /\ op' = "go_skip"
    /\ UNCHANGED <<board, solver, log, got, expect, search, cleared, bestmove>>

GoCall_unchecked ==
    /\ go # <<>>
    /\ go[1].pc = "loop"
    /\ go[1].col < WIDTH
    /\ node_count_' = reset_node_count(node_count_)
    /\ frames' = <<Frame(make_move(pos, go[1].col),
                         CDiv(-(WIDTH * HEIGHT), 2), CDiv(WIDTH * HEIGHT + 1, 2))>>
    /\ calls' = 1
    /\ solves' = solves + 1
    /\ clean' = FALSE
    /\ fromClean' = clean
    /\ go' = <<[go[1] EXCEPT !.pc = "wait"]>>
    /\ op' = "go_solve"
    /\ UNCHANGED <<board, tt_, score, first, repeated, log, got, expect, ret, truth,
                   cleared, bestmove>>

\* lines 113-120: Position next = pos, next.make_move(col), and
\* solver.solve(next) up to its call of negamax
GoCall ==
    /\ go # <<>>
    /\ go[1].pc = "loop"
    /\ go[1].col < WIDTH
    /\ can_play(pos, go[1].col)
    /\ node_count_' = reset_node_count(node_count_)
    /\ frames' = <<Frame(make_move(pos, go[1].col),
                         CDiv(-(WIDTH * HEIGHT), 2), CDiv(WIDTH * HEIGHT + 1, 2))>>
    /\ calls' = 1
    /\ solves' = solves + 1
    /\ clean' = FALSE
    /\ fromClean' = clean
    /\ go' = <<[go[1] EXCEPT !.pc = "wait"]>>
    /\ op' = "go_solve"
    /\ UNCHANGED <<board, tt_, score, first, repeated, log, got, expect, ret, truth,
                   cleared, bestmove>>

\* lines 120-128: score = -solver.solve(next), the best move so far, col++
GoReturn ==
    /\ go # <<>>
    /\ go[1].pc = "wait"
    /\ frames = <<>>
    /\ ret # <<>>
    /\ score' = ret
    /\ go' = <<[pc         |-> "loop",
                col        |-> go[1].col + 1,
                best_col   |-> IF -ret[1] > go[1].best_score
                               THEN go[1].col ELSE go[1].best_col,
                best_score |-> IF -ret[1] > go[1].best_score
                               THEN -ret[1] ELSE go[1].best_score]>>
    /\ ret' = <<>>
    /\ op' = "go_score"
    /\ UNCHANGED <<board, tt_, node_count_, solves, clean, fromClean, first,
                   repeated, log, got, expect, frames, calls, truth, cleared,
                   bestmove>>

\* lines 131-139: the loop is over, the best move and the node count are printed
GoEnd ==
    /\ go # <<>>
    /\ go[1].pc = "loop"
    /\ go[1].col = WIDTH
    /\ bestmove' = <<[col    |-> go[1].best_col + 1,
                      score  |-> go[1].best_score,
                      result |-> IF go[1].best_score > 0 THEN "WIN"
                                 ELSE IF go[1].best_score < 0 THEN "LOSE"
                                 ELSE "DRAW",
                      nodes  |-> node_count_]>>
    /\ go' = <<>>
    /\ op' = "go"
    /\ UNCHANGED <<board, solver, log, got, expect, search, cleared>>

(***************************************************************************)
(* Specification of the Position: position commands and make_move calls,   *)
(* each on a column for which can_play holds (make_move's precondition).   *)
(***************************************************************************)
Init ==
    /\ mask_ = EmptyPosition.mask_
    /\ position_ = EmptyPosition.position_
    /\ moves_ = EmptyPosition.moves_
    /\ parsed = <<>>
    /\ steps = 0
    /\ grid = EmptyGrid
    /\ tt_ = TranspositionTable(DefaultSize)
    /\ node_count_ = 0
    /\ score = <<>>
    /\ solves = 0
    /\ clean = TRUE
    /\ fromClean = FALSE
    /\ first = <<>>
    /\ repeated = FALSE
    /\ log = <<>>
    /\ got = <<>>
    /\ expect = <<>>
    /\ frames = <<>>
    /\ ret = <<>>
    /\ go = <<>>
    /\ calls = 0
    /\ truth = <<>>
    /\ cleared = {}
    /\ given = <<>>
    /\ bestmove = <<>>
    /\ op = "Position"

Next ==
    \/ \E args \in MoveStrings : HandlePosition(args)
    \/ \E col \in Columns : MakeMove(col)

Spec == Init /\ [][Next]_vars

(***************************************************************************)
(* Specification of the TranspositionTable used on its own: a table of a   *)
(* small capacity, then put, get and reset calls.                          *)
(***************************************************************************)
InitTable ==
    /\ mask_ = EmptyPosition.mask_
    /\ position_ = EmptyPosition.position_
    /\ moves_ = EmptyPosition.moves_
    /\ parsed = <<>>
    /\ steps = 0
    /\ grid = EmptyGrid
    /\ tt_ \in {TranspositionTable(size) : size \in 1 .. MaxSmallSize}
    /\ node_count_ = 0
    /\ score = <<>>
    /\ solves = 0
    /\ clean = TRUE
    /\ fromClean = FALSE
    /\ first = <<>>
    /\ repeated = FALSE
    /\ log = <<>>
    /\ got = <<>>
    /\ expect = <<>>
    /\ frames = <<>>
    /\ ret = <<>>
    /\ go = <<>>
    /\ calls = 0
    /\ truth = <<>>
    /\ cleared = {}
    /\ given = <<>>
    /\ bestmove = <<>>
    /\ op = "TranspositionTable"

NextTable ==
    \/ \E k \in Keys, value \in Values : Put(k, value)
    \/ \E k \in Keys : Get(k)
    \/ Reset

SpecTable == InitTable /\ [][NextTable]_vars

(***************************************************************************)
(* Specification of the Solver: solvers of several capacities, position    *)
(* commands that set up an endgame, solve calls and resets of the table.   *)
(***************************************************************************)
NextSolver ==
    \/ \E size \in SolverSizes : NewSolver(size)
    \/ \E args \in EndgameStrings : HandlePosition(args)
    \/ Solve
    \/ Reset

SpecSolver == Init /\ [][NextSolver]_vars

(***************************************************************************)
(* Specification of the search: the Solver's specification with the solve  *)
(* taken one step of negamax at a time.                                    *)
(***************************************************************************)
NextSearch ==
    \/ \E size \in SolverSizes : NewSolver(size)
    \/ \E args \in EndgameStrings \cup BoundStrings : HandlePosition(args)
    \/ Reset
    \/ ResetNodeCount
    \/ SolveBegin
    \/ EnterWin
    \/ EnterDraw
    \/ Enter
    \/ LookupPrune
    \/ Lookup
    \/ TightenPrune
    \/ Tighten
    \/ Skip
    \/ Call
    \/ Cutoff
    \/ Resume
    \/ Store
    \/ SolveReturn

SpecSearch == Init /\ [][NextSearch]_vars

(***************************************************************************)
(* Specification of the command loop on endgames: position commands and    *)
(* go commands, the solves of a go command taken one step of negamax at a  *)
(* time.                                                                   *)
(***************************************************************************)
NextGo ==
    \/ \E args \in EndgameStrings \cup BoundStrings \cup FullColumnStrings :
          HandlePosition(args)
    \/ GoWin
    \/ GoDraw
    \/ GoBegin
    \/ GoSkip
    \/ GoCall
    \/ GoReturn
    \/ GoEnd
    \/ EnterWin
    \/ EnterDraw
    \/ Enter
    \/ LookupPrune
    \/ Lookup
    \/ TightenPrune
    \/ Tighten
    \/ Skip
    \/ Call
    \/ Cutoff
    \/ Resume
    \/ Store

SpecGo == Init /\ [][NextGo]_vars

(***************************************************************************)
(* Claims about the Position, checked under Spec.                          *)
(***************************************************************************)

\* C2: after any sequence of make_move calls from the empty board, each on a
\* column with can_play true, the number of 1 bits of mask_ equals moves_.
C2_PlyOccupancy == Cardinality(mask_) = moves_

C2_Witness ==
    /\ op = "make_move"
    /\ steps >= 2
    /\ moves_ >= 8
    /\ Cardinality(mask_) = moves_

\* C3: position_ is a subset of mask_ and is exactly the set of the cells of
\* the player who moves next, and mask_ XOR position_ is exactly the set of
\* the cells of the other player (the stone just dropped is one of them).
C3_Perspective ==
    /\ position_ \subseteq mask_
    /\ position_ = GridStones(grid, GridMover(grid))
    /\ BitXor(mask_, position_) = GridStones(grid, 1 - GridMover(grid))

C3_Witness ==
    /\ op = "make_move"
    /\ steps >= 3
    /\ Cardinality(position_) >= 2
    /\ Cardinality(BitXor(mask_, position_)) > Cardinality(position_)

\* C4: the guard bit col*7 + 6 of every column is 0 in mask_ and in
\* position_, and no bit at index 49 or above is set.
C4_GuardBits ==
    /\ \A col \in Columns :
          col * (HEIGHT + 1) + HEIGHT \notin (mask_ \cup position_)
    /\ \A b \in mask_ \cup position_ : b < WIDTH * (HEIGHT + 1)

\* a make_move call has just filled a column to its top
C4_Witness ==
    /\ op = "make_move"
    /\ \E col \in Columns :
          /\ ~can_play(pos, col)
          /\ Len(grid[col]) = HEIGHT
          /\ grid[col][HEIGHT] = 1 - GridMover(grid)

\* C5: for every column c with can_play(c), is_winning_move(c) is true if and
\* only if the player to move has four stones in a line (vertical, horizontal
\* or diagonal) on the 7x6 grid once their stone lies on the lowest empty cell
\* of c; a run across a column's top into the next column does not count.
C5_WouldWin ==
    \A col \in Columns :
        can_play(pos, col) =>
            (is_winning_move(pos, col) <=>
                GridFour(GridDrop(grid, col), GridMover(grid)))

\* some drop completes a diagonal and no vertical or horizontal line, and the
\* mover already has stones on the top row
C5_Witness ==
    /\ ~GridFour(grid, GridMover(grid))
    /\ \E col \in Columns :
          /\ can_play(pos, col)
          /\ is_winning_move(pos, col)
          /\ LET np == BitOr(position_,
                             BitAnd(Add64(mask_, bottom_mask(col)), column_mask(col)))
                 h  == LET m == BitAnd(np, Shr(np, 7)) IN BitAnd(m, Shr(m, 14))
                 v  == LET m == BitAnd(np, Shr(np, 1)) IN BitAnd(m, Shr(m, 2))
             IN  h = {} /\ v = {}

\* C6: can_play(c) is true if and only if fewer than 6 stones were dropped
\* into column c.
C6_CanDrop ==
    \A col \in Columns : can_play(pos, col) <=> Len(grid[col]) < HEIGHT

\* six drops into one column: it is full, every other column is not
C6_Witness ==
    /\ moves_ = HEIGHT
    /\ \E col \in Columns :
          /\ Len(grid[col]) = HEIGHT
          /\ ~can_play(pos, col)
          /\ \A other \in Columns \ {col} : can_play(pos, other)

\* the position a key stands for: in every 7-bit lane of the key the highest
\* 1 bit marks the height of the column, the bits below it are the lane of
\* position_.  <<{}, {}>> with a 1 at index 63 if a lane is empty.
DecodeKey(k) ==
    LET lane(c)   == {b - c * (HEIGHT + 1) :
                        b \in {x \in k : /\ x >= c * (HEIGHT + 1)
                                         /\ x <= c * (HEIGHT + 1) + HEIGHT}}
        height(c) == CHOOSE h \in lane(c) : \A x \in lane(c) : x <= h
    IN  IF \E c \in Columns : lane(c) = {}
        THEN <<{WordBits - 1}, {}>>
        ELSE <<UNION {{c * (HEIGHT + 1) + r : r \in 0 .. (height(c) - 1)} : c \in Columns},
               UNION {{c * (HEIGHT + 1) + x : x \in lane(c) \ {height(c)}} : c \in Columns}>>

\* C7: key() = position_ + mask_ + BOTTOM_MASK is injective over the positions
\* reachable by legal moves (the pair <<mask_, position_>> is recovered from
\* the key alone), and the key of a reachable position is never 0.
C7_KeyInjective ==
    /\ DecodeKey(key(pos)) = <<mask_, position_>>
    /\ key(pos) # {}

\* a full column, and stones of both players
C7_Witness ==
    /\ op = "make_move"
    /\ \E col \in Columns : ~can_play(pos, col)
    /\ position_ # {}
    /\ position_ # mask_
    /\ DecodeKey(key(pos)) = <<mask_, position_>>

(***************************************************************************)
(* Claims about the TranspositionTable, checked under SpecTable.           *)
(***************************************************************************)
\* the last put call whose key falls on index idx: <<>> or <<<<k, value>>>>
LastPutAt(idx) ==
    LET at == {i \in DOMAIN log : index(tt_, log[i][1]) = idx}
    IN  IF at = {} THEN <<>>
        ELSE <<log[CHOOSE i \in at : \A j \in at : j <= i]>>

\* C8: after any sequence of put and reset calls, get(k) returns a value v
\* other than 0 only if the last put on the slot k mod capacity was put(k, v),
\* and returns 0 when that put had another key: it never returns a value
\* stored under a key k2 # k that falls on the same slot.
C8_NoForeignValue ==
    \A k \in Keys :
        LET v    == get(tt_, k)
            last == LastPutAt(index(tt_, k))
        IN  /\ v # 0 => (last # <<>> /\ last[1] = <<k, v>>)
            /\ (last # <<>> /\ last[1][1] # k) => v = 0

\* get(k1) returned 0 after put(k1, v1) and a later put(k2, v2) on its slot
C8_Witness ==
    /\ op = "get"
    /\ got # <<>>
    /\ got[2] = 0
    /\ \E i, j \in DOMAIN log :
          /\ i < j
          /\ log[i][1] = got[1]
          /\ log[j][1] # got[1]
          /\ index(tt_, log[j][1]) = index(tt_, got[1])
          /\ LastPutAt(index(tt_, got[1])) = <<log[j]>>

(***************************************************************************)
(* Claims about the Solver, checked under SpecSolver.                      *)
(***************************************************************************)
\* C1: for a state reached by legal moves in which no four in a line exists
\* yet, solve starting from a clean table returns exactly the score of the
\* full-width negamax without pruning and without table.
C1_MinimaxEquivalence ==
    (/\ op = "solve"
     /\ fromClean
     /\ ~GridFour(grid, 0)
     /\ ~GridFour(grid, 1))
        => score = <<expect[1].minimax>>

\* a search of at least ten nodes that wrote the table found a lost position
C1_Witness ==
    /\ op = "solve"
    /\ fromClean
    /\ ~GridFour(grid, 0)
    /\ ~GridFour(grid, 1)
    /\ node_count_ >= 10
    /\ tt_.table_ # NoEntries
    /\ score = <<expect[1].minimax>>
    /\ score[1] < 0

\* C9: the score solve returns does not depend on the capacity of the table:
\* on a table of any capacity >= 1, capacities on which positions share a
\* slot included, it is the score found with the default capacity.
C9_CapacityIndependence ==
    (op = "solve" /\ fromClean) => score = <<expect[1].atDefault.score>>

\* a table of one slot gave the same score and visited more nodes
C9_Witness ==
    /\ op = "solve"
    /\ fromClean
    /\ tt_.size_ = 1
    /\ score = <<expect[1].atDefault.score>>
    /\ node_count_ > expect[1].atDefault.nodes

\* C10: solving the same state twice, each time starting from a clean table,
\* gives the same score and the same node count both times.
C10_Determinism ==
    (op = "solve" /\ fromClean /\ first # <<>>)
        => first = <<[score |-> score[1], nodes |-> node_count_]>>

\* the second solve of a board, after a reset, on a search of several nodes
C10_Witness ==
    /\ op = "solve"
    /\ fromClean
    /\ repeated
    /\ node_count_ >= 10
    /\ first = <<[score |-> score[1], nodes |-> node_count_]>>

(***************************************************************************)
(* Claims about the search, checked under SpecSearch.                      *)
(***************************************************************************)
\* every column is full and nobody has four in a line
FullBoard ==
    /\ moves_ = WIDTH * HEIGHT
    /\ ~GridFour(grid, 0)
    /\ ~GridFour(grid, 1)

\* C11: solve on a state of 42 stones without four in a line returns exactly
\* 0 whatever the table holds, visits exactly one node and does not write the
\* table: its one call of negamax ends at the draw check.
C11_FullBoard ==
    [][/\ (FullBoard /\ op' = "solve_begin") => (node_count_' = 0 /\ tt_' = tt_)
       /\ (FullBoard /\ frames # <<>>) =>
             /\ op' = "draw"
             /\ frames' = <<>>
             /\ ret' = <<0>>
             /\ node_count_' = 1
             /\ tt_' = tt_
       /\ (FullBoard /\ op' = "solve") =>
             (score' = <<0>> /\ node_count_' = 1 /\ tt_' = tt_)]_vars

\* the full board was solved on a table that held entries of an earlier solve
C11_Witness ==
    /\ op = "solve"
    /\ FullBoard
    /\ tt_.table_ # NoEntries
    /\ ~fromClean
    /\ score = <<0>>
    /\ node_count_ = 1

\* the ply count of the negamax call that returned last: the board's count
\* plus the number of its callers
ReturnedPly == moves_ + Len(frames)

\* what nb_moves() gives after n moves, for win_score
Ply(n) == [EmptyPosition EXCEPT !.moves_ = n]

\* C12 as stated: the score returned for an immediate winning drop at ply
\* count p is (42 + 1 - p) / 2, and for any later ply count q up to 41 the win
\* score at p is strictly greater than the win score at q.
C12_StrictlySooner ==
    op = "win" =>
        /\ ret = <<(WIDTH * HEIGHT + 1 - ReturnedPly) \div 2>>
        /\ \A q \in (ReturnedPly + 1) .. (WIDTH * HEIGHT - 1) :
              ret[1] > win_score(Ply(q))

\* C12: the score returned for an immediate winning drop at ply count p is
\* (42 + 1 - p) / 2; for a later ply count q up to 41 the win score at p is
\* greater than or equal to the win score at q, strictly greater when
\* q >= p + 2 (the same player moves at p and p + 2), and equal to it when p is
\* even and q = p + 1.
C12_WinScore ==
    op = "win" =>
        /\ ret = <<(WIDTH * HEIGHT + 1 - ReturnedPly) \div 2>>
        /\ \A q \in (ReturnedPly + 1) .. (WIDTH * HEIGHT - 1) :
              /\ ret[1] >= win_score(Ply(q))
              /\ q >= ReturnedPly + 2 => ret[1] > win_score(Ply(q))
              /\ (ReturnedPly % 2 = 0 /\ q = ReturnedPly + 1) =>
                     ret[1] = win_score(Ply(q))

\* a call below the root found a winning drop at an even ply count
C12_Witness ==
    /\ op = "win"
    /\ frames # <<>>
    /\ ReturnedPly % 2 = 0
    /\ ReturnedPly < WIDTH * HEIGHT - 1
    /\ ret = <<win_score(Ply(ReturnedPly + 1))>>

\* C13: every value the search writes to the table is alpha - 42/2 + 1 for an
\* alpha with -21 <= alpha < beta <= max_possible, so it is not 0, it lies in
\* -128 .. 127 and the int8 cast leaves it as it is; the lookup reads it back
\* and decoding it (cached + 42/2 - 1) gives the alpha that was stored.
C13_StoredValue ==
    [][op' = "store" =>
          LET written == EntryAt(tt_', index(tt_', Top.k))
          IN  /\ Top.alpha >= CDiv(-(WIDTH * HEIGHT), 2)
              /\ Top.alpha < Top.beta
              /\ Top.beta <= max_possible(Top.p)
              /\ written.key = key(Top.p)
              /\ written.value = Top.alpha - (WIDTH * HEIGHT) \div 2 + 1
              /\ written.value # 0
              /\ written.value >= -128
              /\ written.value <= 127
              /\ get(tt_', key(Top.p)) = written.value
              /\ max_from_cache(get(tt_', key(Top.p))) = Top.alpha]_vars

\* an alpha above 0 was stored, below the value stored in another slot
C13_Witness ==
    /\ op = "store"
    /\ ret[1] > 0
    /\ \E a, b \in DOMAIN tt_.table_ :
          /\ max_from_cache(tt_.table_[a].value) = ret[1]
          /\ tt_.table_[a].value < 0
          /\ tt_.table_[b].value > tt_.table_[a].value

\* C14: solve sets the node counter to 0 before the search, every negamax
\* invocation adds exactly one to it on entry, and when solve returns the counter
\* is the number of negamax invocations of that solve alone (calls counts the
\* invocations: the one solve makes and one per recursive call).
C14_NodeCount ==
    /\ op = "solve_begin" => (node_count_ = 0 /\ calls = 1)
    /\ frames # <<>> =>
          node_count_ = calls - (IF ret = <<>> /\ Top.pc = "enter" THEN 1 ELSE 0)
    /\ (frames = <<>> /\ ret # <<>>) => node_count_ = calls
    /\ op = "solve" => node_count_ = calls

\* a second solve on the same solver returned after several invocations
C14_Witness ==
    /\ op = "solve"
    /\ solves = 2
    /\ calls > 1
    /\ node_count_ = calls

\* C15: after reset(), get(k) returns 0 for every key k, whatever put calls
\* came before the reset; every slot holds key 0 and value 0.
C15_ResetClears ==
    op = "reset" =>
        /\ \A k \in Keys : get(tt_, k) = 0
        /\ \A idx \in 0 .. tt_.size_ - 1 : EntryAt(tt_, idx) = DefaultEntry

\* the reset came after puts on key 0 and on another key
C15_Witness ==
    /\ op = "reset"
    /\ Word(0) \in cleared
    /\ \E k \in cleared : k # Word(0)
    /\ \A k \in cleared : get(tt_, k) = 0

\* the empty cells of the state passed to solve
EmptyCells == WIDTH * HEIGHT - moves_

\* what is left to do in a call of negamax: the statements before the move
\* loop, then for each column of COLUMN_ORDER not yet passed the call and the
\* return of the child
Rank(frame) ==
    CASE frame.pc = "enter"   -> 3 * WIDTH + 5
      [] frame.pc = "lookup"  -> 3 * WIDTH + 4
      [] frame.pc = "tighten" -> 3 * WIDTH + 3
      [] frame.pc = "loop"    -> 3 * (WIDTH - frame.i) + 2
      [] frame.pc = "wait"    -> 3 * (WIDTH - frame.i) + 1

\* what is left to do in the solve: the ranks of the calls on the stack from
\* the outermost in, then 1 if a value is being returned
Work(stack, returned) == [n \in 1 .. Len(stack) |-> Rank(stack[n])] \o <<Len(returned)>>

\* the lexicographic order on sequences of naturals; it is well-founded on
\* the sequences of a bounded length whose elements are bounded
LexLess(s, t) ==
    \/ Len(s) < Len(t) /\ \A n \in 1 .. Len(s) : s[n] = t[n]
    \/ \E n \in 1 .. Len(s) :
          /\ n <= Len(t)
          /\ s[n] < t[n]
          /\ \A m \in 1 .. (n - 1) : s[m] = t[m]

\* C16: solve terminates and its recursion is bounded.  While a solve runs,
\* the recursion depth of negamax (the calls below the one solve makes) never
\* exceeds the number of empty cells of the state passed to solve, which is at
\* most 42; the stack holds at most as many calls as there are empty cells when
\* there is one; every recursive call is on a state whose nb_moves is one more
\* than its parent's; and every step of the solve makes Work smaller in the
\* well-founded order LexLess, so that no solve takes infinitely many steps.
C16_Terminates ==
    [][/\ frames # <<>> =>
             /\ frames[1].p = pos
             /\ EmptyCells <= WIDTH * HEIGHT
             /\ Len(frames) - 1 <= EmptyCells
             /\ EmptyCells >= 1 => Len(frames) <= EmptyCells
             /\ \A n \in 1 .. Len(frames) : Rank(frames[n]) \in 2 .. 3 * WIDTH + 5
             /\ \A n \in 2 .. Len(frames) :
                   frames[n].p.moves_ = frames[n - 1].p.moves_ + 1
       /\ (frames # <<>> \/ ret # <<>>) =>
             /\ LexLess(Work(frames', ret'), Work(frames, ret))
             /\ Len(frames') <= Len(frames) + 1
       /\ (frames = <<>> /\ ret # <<>>) => (op' = "solve" /\ frames' = <<>> /\ ret' = <<>>)]_vars

\* the stack holds as many calls as the state passed to solve has empty cells,
\* three or more
C16_Witness ==
    /\ frames # <<>>
    /\ Len(frames) >= 3
    /\ Len(frames) = EmptyCells
    /\ Top.p.moves_ = WIDTH * HEIGHT - 1

(***************************************************************************)
(* More claims about the Position, checked under Spec.                     *)
(***************************************************************************)
\* C17: make_move(col) on a position with can_play(col) sets exactly one new
\* bit of mask_, the lowest empty cell of the column (bit col * 7 + the number
\* of stones already in the column), and leaves every other bit of mask_ as
\* it was, although bottom_mask(col) is added to the whole word.
C17_OneNewBit ==
    [][op' = "make_move" =>
          \E col \in Columns :
              LET stones == Cardinality(BitAnd(mask_, column_mask(col)))
                  cell   == col * (HEIGHT + 1) + stones
              IN  /\ grid' = GridDrop(grid, col)
                  /\ can_play(pos, col)
                  /\ stones = Len(grid[col])
                  /\ \A row \in 0 .. (HEIGHT - 1) :
                        (col * (HEIGHT + 1) + row \in mask_) <=> row < stones
                  /\ cell \notin mask_
                  /\ mask_' = mask_ \cup {cell}
                  /\ mask_' \ mask_ = {cell}
                  /\ mask_ \ mask_' = {}]_vars

\* a stone was dropped on three or more stones, between two columns that hold
\* stones
C17_Witness ==
    /\ op = "make_move"
    /\ \E col \in 1 .. (WIDTH - 2) :
          /\ Len(grid[col]) >= 4
          /\ grid[col][Len(grid[col])] = 1 - GridMover(grid)
          /\ Len(grid[col - 1]) >= 1
          /\ Len(grid[col + 1]) >= 1
          /\ Cardinality(BitAnd(mask_, column_mask(col))) = Len(grid[col])

\* C18: at every point of every sequence of solves on one table, each entry of
\* the table with a value other than 0, decoded as value + 42/2 - 1, is greater
\* than or equal to the minimax score of the position stored under its key
\* (truth holds that score for every key stored since the table was cleared).
C18_UpperBound ==
    \A idx \in DOMAIN tt_.table_ :
        LET entry == tt_.table_[idx]
        IN  entry.value # 0 =>
                /\ entry.key \in DOMAIN truth
                /\ entry.value + (WIDTH * HEIGHT) \div 2 - 1 >= truth[entry.key]

\* during the second solve on a table, one entry is above the score of its
\* position and another equals it
C18_Witness ==
    /\ solves = 2
    /\ frames # <<>>
    /\ \E a, b \in DOMAIN tt_.table_ :
          /\ tt_.table_[a].value # 0
          /\ tt_.table_[b].value # 0
          /\ tt_.table_[a].value + (WIDTH * HEIGHT) \div 2 - 1 > truth[tt_.table_[a].key]
          /\ tt_.table_[b].value + (WIDTH * HEIGHT) \div 2 - 1 = truth[tt_.table_[b].key]

\* C19: negamax writes the table only where the move loop has gone past every
\* column of COLUMN_ORDER without a beta cutoff (the store at the end); its
\* returns for an immediate win, the draw check, the cached-bound prune, the
\* tightened-bound prune and a beta cutoff leave the table as it is.
C19_StoreOnly ==
    [][frames # <<>> =>
          /\ tt_' # tt_ =>
                (op' = "store" /\ ret = <<>> /\ Top.pc = "loop" /\ Top.i = WIDTH)
          /\ op' \in {"win", "draw", "cached", "tight", "cutoff"} =>
                (tt_' = tt_ /\ frames' = Callers /\ ret' # <<>>)
          /\ op' = "cutoff" => (ret # <<>> /\ ret' = <<-ret[1]>> /\ ret'[1] >= Top.beta)
          /\ op' = "store" =>
                /\ Top.i = WIDTH
                /\ frames' = Callers
                /\ ret' = <<Top.alpha>>
                /\ tt_' = put(tt_, key(Top.p), Top.alpha - (WIDTH * HEIGHT) \div 2 + 1)]_vars

\* a beta cutoff returned to its caller in a solve that has stored entries
C19_Witness ==
    /\ op = "cutoff"
    /\ frames # <<>>
    /\ fromClean
    /\ tt_.table_ # NoEntries

\* C20: when some column that can be played is a winning drop for the player
\* to move, negamax returns (42 + 1 - nb_moves) / 2 whatever alpha, beta and the
\* table hold, without a recursive call and without a lookup in the table.
C20_ImmediateWin ==
    [][(/\ frames # <<>>
        /\ ret = <<>>
        /\ Top.pc = "enter"
        /\ \E col \in Columns : can_play(Top.p, col) /\ is_winning_move(Top.p, col)) =>
          /\ op' = "win"
          /\ ret' = <<(WIDTH * HEIGHT + 1 - Top.p.moves_) \div 2>>
          /\ frames' = Callers
          /\ calls' = calls
          /\ got' = got
          /\ tt_' = tt_
          /\ node_count_' = node_count_ + 1]_vars

\* a win was returned that lies above the beta the call was given, while the
\* table holds entries
C20_Witness ==
    /\ op = "win"
    /\ frames # <<>>
    /\ Top.pc = "wait"
    /\ ret[1] > -Top.alpha
    /\ tt_.table_ # NoEntries

(***************************************************************************)
(* More claims about the TranspositionTable, checked under SpecTable.      *)
(***************************************************************************)
\* C21: put(k, v) overwrites the slot k mod capacity whatever it held: the
\* slot holds the key and the value of the most recent put on it since the
\* last reset, and get(k) returns that value if that put's key was k, and 0
\* otherwise (also when no put fell on the slot).
C21_Overwrite ==
    \A k \in Keys :
        LET last == LastPutAt(index(tt_, k))
        IN  /\ last # <<>> =>
                EntryAt(tt_, index(tt_, k)) = [key |-> last[1][1], value |-> last[1][2]]
            /\ last = <<>> => EntryAt(tt_, index(tt_, k)) = DefaultEntry
            /\ get(tt_, k) = IF last # <<>> /\ last[1][1] = k THEN last[1][2] ELSE 0

\* put(k1, v1) then put(k2, v2) on the same slot with k1 # k2: get(k2) is v2
\* and get(k1) is 0
C21_Witness ==
    /\ op = "put"
    /\ Len(log) >= 2
    /\ log[Len(log) - 1][1] # log[Len(log)][1]
    /\ index(tt_, log[Len(log) - 1][1]) = index(tt_, log[Len(log)][1])
    /\ get(tt_, log[Len(log)][1]) = log[Len(log)][2]
    /\ get(tt_, log[Len(log) - 1][1]) = 0

(***************************************************************************)
(* More claims about the search, checked under SpecSearch.                 *)
(***************************************************************************)
\* C22: a solve leaves the caller's position as it was, and in negamax the
\* move made on the copy next never changes the position of the calling
\* invocation (mask_, position_, moves_): every call still on the stack keeps
\* its position, the outermost has the caller's, and each child is the
\* parent's position with one move of COLUMN_ORDER made on it.
C22_CopyBeforeMove ==
    [][(frames # <<>> \/ ret # <<>>) =>
          /\ mask_' = mask_
          /\ position_' = position_
          /\ moves_' = moves_
          /\ frames # <<>> => frames[1].p = pos
          /\ \A n \in 1 .. Len(frames) :
                n <= Len(frames') => frames'[n].p = frames[n].p
          /\ op' = "call" =>
                /\ Len(frames') = Len(frames) + 1
                /\ can_play(Top.p, COLUMN_ORDER[Top.i + 1])
                /\ frames'[Len(frames')].p = make_move(Top.p, COLUMN_ORDER[Top.i + 1])
                /\ frames'[Len(frames')].p # Top.p]_vars

\* a call of negamax made its second or later recursive call, two calls deep
C22_Witness ==
    /\ op = "call"
    /\ Len(frames) >= 3
    /\ frames[1].p = pos
    /\ frames[Len(frames) - 1].i >= 1
    /\ frames[Len(frames) - 1].p.moves_ = moves_ + Len(frames) - 2
    /\ Top.p.moves_ = frames[Len(frames) - 1].p.moves_ + 1

(***************************************************************************)
(* More claims about the position command, checked under Spec.             *)
(***************************************************************************)
\* the i-th character of the string is one of '1'..'7' and fewer than HEIGHT
\* earlier characters name the same column
LegalAt(args, i) ==
    /\ args[i] >= Char0 + 1
    /\ args[i] <= Char0 + WIDTH
    /\ Cardinality({j \in 1 .. (i - 1) : args[j] = args[i]}) < HEIGHT

\* the characters that come before the first one that is not legal
LegalPrefix(args) ==
    IF \A i \in DOMAIN args : LegalAt(args, i) THEN args
    ELSE SubSeq(args, 1,
                (CHOOSE i \in DOMAIN args :
                    ~LegalAt(args, i) /\ \A j \in 1 .. (i - 1) : LegalAt(args, j)) - 1)

\* C26: after a position command whose string is rejected (parse_moves
\* returned -1) the board holds exactly the moves that come before the
\* offending character, made on an empty board: it is not rolled back.  When
\* the string is accepted parse_moves returned its length, which is the
\* board's nb_moves.
C26_RejectedString ==
    op = "handle_position" =>
        /\ pos = handle_position(LegalPrefix(given)).pos
        /\ grid = GridReplay(EmptyGrid, LegalPrefix(given), 1)
        /\ moves_ = Len(LegalPrefix(given))
        /\ mask_ = GridStones(grid, 0) \cup GridStones(grid, 1)
        /\ position_ = GridStones(grid, GridMover(grid))
        /\ (given # <<>> /\ LegalPrefix(given) # given) => parsed = <<-1>>
        /\ (given # <<>> /\ LegalPrefix(given) = given) =>
              (parsed = <<Len(given)>> /\ moves_ = Len(given))
        /\ given = <<>> => (parsed = <<>> /\ pos = EmptyPosition)

\* a string was rejected at a move into a full column and the six stones
\* before it are on the board
C26_Witness ==
    /\ op = "handle_position"
    /\ parsed = <<-1>>
    /\ moves_ = HEIGHT
    /\ Len(given) > HEIGHT + 1
    /\ \E c \in Columns : Len(grid[c]) = HEIGHT

(***************************************************************************)
(* C25: every invocation of negamax during a solve is entered with alpha   *)
(* < beta.  The root is entered with (-21, 21); the window of an invocation *)
(* stays non-empty after each of the two steps that lower beta and after   *)
(* each child score below beta, so the window (-beta, -alpha) handed to a  *)
(* child is non-empty as well.                                             *)
(***************************************************************************)
C25_Window ==
    /\ \A n \in DOMAIN frames : frames[n].alpha < frames[n].beta
    /\ frames # <<>> =>
          /\ frames[1].alpha >= -21
          /\ frames[1].beta <= 21
          /\ frames[1].pc = "enter" => frames[1].alpha = -21 /\ frames[1].beta = 21
    /\ \A n \in DOMAIN frames :
          n > 1 /\ frames[n].pc = "enter" =>
              /\ frames[n - 1].pc = "wait"
              /\ frames[n].alpha = -frames[n - 1].beta
              /\ frames[n].beta = -frames[n - 1].alpha

\* a child is entered with a window its caller narrowed on both sides:
\* beta lowered below 21 and alpha raised by an earlier child
C25_Witness ==
    /\ op = "call"
    /\ Len(frames) >= 3
    /\ Top.pc = "enter"
    /\ frames[Len(frames) - 1].i >= 1
    /\ frames[Len(frames) - 1].alpha > -frames[Len(frames) - 2].beta
    /\ frames[Len(frames) - 1].beta < -frames[Len(frames) - 2].alpha
    /\ Top.alpha < Top.beta


\* the stones of p lie in rows 0 .. HEIGHT - 1 and each move added one: a
\* drop into a full column sets the bit above the column's six cells
NoFullDrop(p) ==
    /\ \A c \in Columns : c * (HEIGHT + 1) + HEIGHT \notin p.mask_
    /\ Cardinality(p.mask_) = p.moves_

(***************************************************************************)
(* C24: the program's own callers make a move only in a column can_play    *)
(* has just accepted.  The call of negamax's move loop and the call of the *)
(* go command's loop are taken on a column that can be played and hand     *)
(* make_move of that column to the callee; the parser stops at the first   *)
(* move into a full column; so no board of the command loop and no         *)
(* position of the search ever holds a stone above the sixth row.          *)
(***************************************************************************)
C24_CallerChecks ==
    [][/\ op' = "call" =>
             /\ can_play(Top.p, COLUMN_ORDER[Top.i + 1])
             /\ frames'[Len(frames')].p = make_move(Top.p, COLUMN_ORDER[Top.i + 1])
       /\ op' = "go_solve" =>
             /\ can_play(pos, go[1].col)
             /\ frames' = <<Frame(make_move(pos, go[1].col), -21, 21)>>
       /\ op' = "handle_position" =>
             /\ moves_' = Len(LegalPrefix(given'))
             /\ \A c \in Columns : Len(grid'[c]) <= HEIGHT
             /\ mask_' = GridStones(grid', 0) \cup GridStones(grid', 1)
       /\ NoFullDrop([mask_ |-> mask_', position_ |-> position_', moves_ |-> moves_'])
       /\ \A n \in DOMAIN frames' : NoFullDrop(frames'[n].p)]_vars

\* the parser has rejected a move into a full column, the go command has
\* passed over a full column before its call of solve, and negamax has passed
\* over a full column before a recursive call
C24_Witness ==
    /\ op = "call"
    /\ go # <<>>
    /\ go[1].pc = "wait"
    /\ parsed = <<-1>>
    /\ given \in FullColumnStrings
    /\ \E c \in 0 .. (go[1].col - 1) : ~can_play(pos, c)
    /\ Len(frames) >= 2
    /\ \E i \in 1 .. frames[Len(frames) - 1].i :
          ~can_play(frames[Len(frames) - 1].p, COLUMN_ORDER[i])
    /\ Top.p = make_move(frames[Len(frames) - 1].p,
                         COLUMN_ORDER[frames[Len(frames) - 1].i + 1])


\* solve(p) on a solver built for this one call
FreshSolve(p) == solve(p, TranspositionTable(DefaultSize), 0)

(***************************************************************************)
(* C23: a solve on a cache that earlier solves have filled returns the     *)
(* score it returns on a fresh cache.  The go command solves the children  *)
(* of its board one after the other on one solver whose table is never     *)
(* reset; each of these solves returns the score of a solve of the same    *)
(* child on a solver of its own.                                           *)
(***************************************************************************)
C23_SharedCache ==
    [][op' = "go_score" =>
          /\ score' = <<FreshSolve(make_move(pos, go[1].col)).score>>
          /\ go'[1].best_score >= -score'[1]
          /\ go'[1].best_score > go[1].best_score =>
                go'[1].best_col = go[1].col /\ go'[1].best_score = -score'[1]]_vars

\* the solve of a later child has returned, and the entries the earlier
\* solves left in the table saved it calls of negamax
C23_Witness ==
    /\ op = "go_score"
    /\ go # <<>>
    /\ solves >= 2
    /\ tt_.table_ # NoEntries
    /\ LET child == make_move(pos, go[1].col - 1)
       IN  /\ can_play(pos, go[1].col - 1)
           /\ node_count_ < FreshSolve(child).nodes
           /\ score = <<FreshSolve(child).score>>

=============================================================================
